---- MODULE Spec2Model ----
(***************************************************************************)
(* A model of the temporal addressing core of timetableau: the ranged      *)
(* integers of ranged.rs, the index conversion, classifier, resolution and *)
(* timeslot! macro of timeslot.rs, and the five-slot schema of period.rs.  *)
(*                                                                         *)
(* Every operation of the crate is a pure function of immutable values, so *)
(* each specification below is a caller: Init draws the caller's inputs    *)
(* and each action is one call whose result is kept in a variable.         *)
(*                                                                         *)
(* Option and Result values are tuples: <<"None">>, <<"Some", x>>,         *)
(* <<"Ok", x>>, <<"Err">>.  A variable that holds no result yet is Unset.  *)
(***************************************************************************)
EXTENDS Integers, Sequences, FiniteSets, TLC

VARIABLES
    \* ---- caller of ranged.rs ----
    rtype,          \* the instantiation: [prim, MIN, MAX]
    value,          \* the primitive handed to the constructors
    made,           \* result of new(value)
    tried,          \* result of try_from(value)
    copied,         \* a copy of the instance held in made
    got,            \* result of get() on an instance
    prim,           \* result of the From conversion of an instance
    \* ---- caller of the index conversion of timeslot.rs ----
    arg_index,      \* the usize handed to RangedUsize::new
    arg_slot,       \* a TimeSlot built from its three public fields
    ranged,         \* RangedUsize::new(arg_index)
    decoded,        \* TimeSlot::with_index(ranged)
    decoded_index,  \* decoded.index()
    encoded,        \* arg_slot.index()
    reranged,       \* RangedUsize::new(encoded)
    redecoded,      \* TimeSlot::with_index(reranged)
    \* ---- caller of the classifier of timeslot.rs ----
    time,           \* the NaiveTime handed to from_time: [hour, minute, second]
    period,         \* Period::from_time(time)
    \* ---- caller of the date-time resolution of timeslot.rs ----
    arg_week,       \* the Week handed to from_datetime
    datetime,       \* the DateTime handed to from_datetime: [weekday, time]
    active_day,     \* ActiveDay::try_from(datetime.weekday())
    resolved,       \* TimeSlot::from_datetime(arg_week, datetime)
    \* ---- user of the timeslot! macro ----
    token,          \* the token handed to timeslot!, as its characters
    expanded,       \* the value of timeslot!(token), or NoMatch
    expanded_index, \* expanded.index()
    \* ---- caller of the derived comparisons of ranged.rs ----
    other_value,    \* the primitive of the second instance
    other_made,     \* result of new(other_value)
    equal,          \* result of made == other_made
    less,           \* result of made < other_made
    \* ---- caller of the ordinal conversions of ActiveDay ----
    ordinal,        \* the integer handed to from_i64 and from_u64
    by_i64,         \* ActiveDay::from_i64(ordinal)
    by_u64,         \* ActiveDay::from_u64(ordinal), for an ordinal that is a u64
    days_back,      \* num_days_from_monday() of a converted day
    \* ---- caller of the index conversion of period.rs ----
    five_arg,       \* the u8 handed to RangedU8::new
    five_ranged,    \* RangedU8::<0, 49>::new(five_arg)
    five_decoded,   \* Period::with_index(five_ranged) of period.rs
    five_index,     \* five_decoded.index()
    \* ---- caller of the classifier of period.rs ----
    five_slot,      \* TimeSlot::from_time(time) of period.rs
    \* ---- caller resolving two instants of one iteration ----
    later_week,     \* the Week of the second instant
    later_datetime, \* the DateTime of the second instant
    later_resolved, \* TimeSlot::from_datetime(later_week, later_datetime)
    resolved_index, \* resolved.index()
    later_index,    \* later_resolved.index()
    \* ---- caller classifying one minute at two seconds ----
    other_second,   \* the second of the other time
    other_period    \* Period::from_time of time with other_second

rangedVars == <<rtype, value, made, tried, copied, got, prim>>
indexVars == <<arg_index, arg_slot, ranged, decoded, decoded_index, encoded,
               reranged, redecoded>>
timeVars == <<time, period>>
resolveVars == <<arg_week, datetime, active_day, resolved>>
macroVars == <<token, expanded, expanded_index>>
compareVars == <<other_value, other_made, equal, less>>
ordinalVars == <<ordinal, by_i64, by_u64, days_back>>
fiveIndexVars == <<five_arg, five_ranged, five_decoded, five_index>>
fiveTimeVars == <<five_slot>>
chronoVars == <<later_week, later_datetime, later_resolved, resolved_index,
                later_index>>
secondsVars == <<other_second, other_period>>
vars == <<rangedVars, indexVars, timeVars, resolveVars, macroVars,
          compareVars, ordinalVars, fiveIndexVars, fiveTimeVars, chronoVars,
          secondsVars>>

Unset == <<"Unset">>
None == <<"None">>
Some(x) == <<"Some", x>>
IsSome(o) == Len(o) = 2 /\ o[1] = "Some"
Unwrap(o) == o[2]
\* A value of a plain (non-Option) type that a call returned.
Ret(x) == <<"Ret", x>>
IsRet(r) == Len(r) = 2 /\ r[1] = "Ret"
Val(r) == r[2]

(***************************************************************************)
(*                              ranged.rs                                  *)
(***************************************************************************)

\* How far from each end of the primitive type the modelled MIN and MAX range.
EdgeWidth == 1

\* The primitive types the macro is modelled for, with their value sets.
PrimTypes == {"u8", "i8"}
PrimMin(t) == IF t = "u8" THEN 0 ELSE -128
PrimMax(t) == IF t = "u8" THEN 255 ELSE 127
PrimValues(t) == PrimMin(t)..PrimMax(t)

\* The const parameters the callers draw MIN and MAX from: the ends the crate
\* instantiates (0, 49, 79) and the values next to the ends of the type.
RangeEnds(t) ==
    {0, 49, 79}
    \cup (PrimMin(t)..(PrimMin(t) + EdgeWidth))
    \cup ((PrimMax(t) - EdgeWidth)..PrimMax(t))

\* pub struct $name<const MIN: $type, const MAX: $type>($type), with a
\* non-empty range MIN..=MAX.
RangedTypes(t) ==
    {[prim |-> t, MIN |-> lo, MAX |-> hi] :
        lo \in RangeEnds(t), hi \in RangeEnds(t)}

RangedInstantiations ==
    {rt \in UNION {RangedTypes(t) : t \in PrimTypes} : rt.MIN <= rt.MAX}

\* new with a strict lower comparison
Ranged_new_StrictLower(MIN, MAX, v) ==
    IF v > MIN /\ v <= MAX
    THEN <<"Some", <<v>>>>
    ELSE <<"None">>

\* new without the upper comparison
Ranged_new_NoUpper(MIN, MAX, v) ==
    IF v >= MIN
    THEN <<"Some", <<v>>>>
    ELSE <<"None">>

\* new storing the offset from MIN instead of the value
Ranged_new_Offset(MIN, MAX, v) ==
    IF v >= MIN /\ v <= MAX
    THEN <<"Some", <<v - MIN>>>>
    ELSE <<"None">>

\* pub const fn new(value: $type) -> Option<Self>
Ranged_new(MIN, MAX, v) ==
    IF v >= MIN /\ v <= MAX
    THEN Some(<<v>>)
    ELSE None

\* pub const fn get(self) -> $type
Ranged_get(self) == self[1]

\* impl From<$name<MIN, MAX>> for $type
Ranged_from(v) == Ranged_get(v)

\* Option::ok_or(())
ok_or(o) == IF IsSome(o) THEN <<"Ok", Unwrap(o)>> ELSE <<"Err">>

\* impl TryFrom<$type> for $name<MIN, MAX>
Ranged_try_from(MIN, MAX, v) == ok_or(Ranged_new(MIN, MAX, v))

IsOk(r) == Len(r) = 2 /\ r[1] = "Ok"

InitRangedVars ==
    /\ rtype \in RangedInstantiations
    /\ value \in PrimValues(rtype.prim)
    /\ made = Unset
    /\ tried = Unset
    /\ copied = Unset
    /\ got = Unset
    /\ prim = Unset

IdleRangedVars ==
    /\ rtype = Unset
    /\ value = Unset
    /\ made = Unset
    /\ tried = Unset
    /\ copied = Unset
    /\ got = Unset
    /\ prim = Unset

\* let made = Ranged::<MIN, MAX>::new(value);
CallNew ==
    /\ made = Unset
    /\ made' = Ranged_new(rtype.MIN, rtype.MAX, value)
    /\ UNCHANGED <<rtype, value, tried, copied, got, prim>>
    /\ UNCHANGED <<indexVars, timeVars, resolveVars, macroVars, compareVars,
                   ordinalVars, fiveIndexVars, fiveTimeVars, chronoVars,
                   secondsVars>>

\* let tried = Ranged::<MIN, MAX>::try_from(value);
CallTryFrom ==
    /\ tried = Unset
    /\ tried' = Ranged_try_from(rtype.MIN, rtype.MAX, value)
    /\ UNCHANGED <<rtype, value, made, copied, got, prim>>
    /\ UNCHANGED <<indexVars, timeVars, resolveVars, macroVars, compareVars,
                   ordinalVars, fiveIndexVars, fiveTimeVars, chronoVars,
                   secondsVars>>

\* The instances the caller holds: the payloads of made, tried and copied.
Instances ==
    (IF IsSome(made) THEN {Unwrap(made)} ELSE {})
    \cup (IF IsOk(tried) THEN {tried[2]} ELSE {})
    \cup (IF IsRet(copied) THEN {Val(copied)} ELSE {})

\* let copied = instance;   (derive(Clone, Copy))
CallCopy ==
    /\ copied = Unset
    /\ \E r \in Instances : copied' = Ret(r)
    /\ UNCHANGED <<rtype, value, made, tried, got, prim>>
    /\ UNCHANGED <<indexVars, timeVars, resolveVars, macroVars, compareVars,
                   ordinalVars, fiveIndexVars, fiveTimeVars, chronoVars,
                   secondsVars>>

\* let got = instance.get();
CallGet ==
    /\ got = Unset
    /\ \E r \in Instances : got' = Ret(Ranged_get(r))
    /\ UNCHANGED <<rtype, value, made, tried, copied, prim>>
    /\ UNCHANGED <<indexVars, timeVars, resolveVars, macroVars, compareVars,
                   ordinalVars, fiveIndexVars, fiveTimeVars, chronoVars,
                   secondsVars>>

\* let prim: $type = instance.into();
CallInto ==
    /\ prim = Unset
    /\ \E r \in Instances : prim' = Ret(Ranged_from(r))
    /\ UNCHANGED <<rtype, value, made, tried, copied, got>>
    /\ UNCHANGED <<indexVars, timeVars, resolveVars, macroVars, compareVars,
                   ordinalVars, fiveIndexVars, fiveTimeVars, chronoVars,
                   secondsVars>>

NextRanged == CallNew \/ CallTryFrom \/ CallCopy \/ CallGet \/ CallInto

IdleIndexVars ==
    /\ arg_index = Unset
    /\ arg_slot = Unset
    /\ ranged = Unset
    /\ decoded = Unset
    /\ decoded_index = Unset
    /\ encoded = Unset
    /\ reranged = Unset
    /\ redecoded = Unset

IdleTimeVars ==
    /\ time = Unset
    /\ period = Unset

IdleResolveVars ==
    /\ arg_week = Unset
    /\ datetime = Unset
    /\ active_day = Unset
    /\ resolved = Unset

IdleMacroVars ==
    /\ token = Unset
    /\ expanded = Unset
    /\ expanded_index = Unset

IdleCompareVars ==
    /\ other_value = Unset
    /\ other_made = Unset
    /\ equal = Unset
    /\ less = Unset

IdleOrdinalVars ==
    /\ ordinal = Unset
    /\ by_i64 = Unset
    /\ by_u64 = Unset
    /\ days_back = Unset

IdleFiveIndexVars ==
    /\ five_arg = Unset
    /\ five_ranged = Unset
    /\ five_decoded = Unset
    /\ five_index = Unset

IdleFiveTimeVars ==
    /\ five_slot = Unset

IdleChronoVars ==
    /\ later_week = Unset
    /\ later_datetime = Unset
    /\ later_resolved = Unset
    /\ resolved_index = Unset
    /\ later_index = Unset

IdleSecondsVars ==
    /\ other_second = Unset
    /\ other_period = Unset

InitRanged ==
    /\ InitRangedVars
    /\ IdleIndexVars
    /\ IdleTimeVars
    /\ IdleResolveVars
    /\ IdleMacroVars
    /\ IdleCompareVars
    /\ IdleOrdinalVars
    /\ IdleFiveIndexVars
    /\ IdleFiveTimeVars
    /\ IdleChronoVars
    /\ IdleSecondsVars

SpecRanged == InitRanged /\ [][NextRanged]_vars

(***************************************************************************)
(*            ranged.rs: derive(PartialEq, Eq, PartialOrd, Ord)            *)
(***************************************************************************)

\* derive(PartialEq, Eq) on the tuple struct: field 0 against field 0
Ranged_eq(self, other) == self[1] = other[1]

\* ordering with the operands exchanged
Ranged_lt_Reversed(self, other) == other[1] < self[1]

\* derive(PartialOrd, Ord) on the tuple struct: the fields in order, of which
\* there is one
Ranged_lt(self, other) == self[1] < other[1]

\* How far from MIN and MAX the two compared primitives are drawn.
CompareWidth == 2

\* The primitives of type rt.prim within CompareWidth of an end of the range.
CompareValues(rt) ==
    {v \in PrimValues(rt.prim) :
        \/ v \in (rt.MIN - CompareWidth)..(rt.MIN + CompareWidth)
        \/ v \in (rt.MAX - CompareWidth)..(rt.MAX + CompareWidth)}

InitCompareVars ==
    /\ rtype \in RangedInstantiations
    /\ value \in CompareValues(rtype)
    /\ other_value \in CompareValues(rtype)
    /\ made = Unset
    /\ tried = Unset
    /\ copied = Unset
    /\ got = Unset
    /\ prim = Unset
    /\ other_made = Unset
    /\ equal = Unset
    /\ less = Unset

\* let other_made = Ranged::<MIN, MAX>::new(other_value);
CallNewOther ==
    /\ other_made = Unset
    /\ other_made' = Ranged_new(rtype.MIN, rtype.MAX, other_value)
    /\ UNCHANGED <<other_value, equal, less>>
    /\ UNCHANGED <<rangedVars, indexVars, timeVars, resolveVars, macroVars,
                   ordinalVars, fiveIndexVars, fiveTimeVars, chronoVars,
                   secondsVars>>

\* let equal = made.unwrap() == other_made.unwrap();
CallEq ==
    /\ IsSome(made)
    /\ IsSome(other_made)
    /\ equal = Unset
    /\ equal' = Ret(Ranged_eq(Unwrap(made), Unwrap(other_made)))
    /\ UNCHANGED <<other_value, other_made, less>>
    /\ UNCHANGED <<rangedVars, indexVars, timeVars, resolveVars, macroVars,
                   ordinalVars, fiveIndexVars, fiveTimeVars, chronoVars,
                   secondsVars>>

\* let less = made.unwrap() < other_made.unwrap();
CallLt ==
    /\ IsSome(made)
    /\ IsSome(other_made)
    /\ less = Unset
    /\ less' = Ret(Ranged_lt(Unwrap(made), Unwrap(other_made)))
    /\ UNCHANGED <<other_value, other_made, equal>>
    /\ UNCHANGED <<rangedVars, indexVars, timeVars, resolveVars, macroVars,
                   ordinalVars, fiveIndexVars, fiveTimeVars, chronoVars,
                   secondsVars>>

NextCompare == CallNew \/ CallNewOther \/ CallEq \/ CallLt

InitCompare ==
    /\ InitCompareVars
    /\ IdleIndexVars
    /\ IdleTimeVars
    /\ IdleResolveVars
    /\ IdleMacroVars
    /\ IdleOrdinalVars
    /\ IdleFiveIndexVars
    /\ IdleFiveTimeVars
    /\ IdleChronoVars
    /\ IdleSecondsVars

SpecCompare == InitCompare /\ [][NextCompare]_vars

(***************************************************************************)
(*                 timeslot.rs: Week, ActiveDay, Period                    *)
(***************************************************************************)

Weeks == {"One", "Two"}
ActiveDays == {"Monday", "Tuesday", "Wednesday", "Thursday", "Friday"}
Periods == {"Tutor", "First", "Second", "Break", "Third", "Fourth", "Lunch",
            "Fifth"}

\* discriminants counted from one
Week_as_usize_OneBased(w) ==
    CASE w = "One" -> 1
      [] w = "Two" -> 2

\* pub enum Week { One = 0, Two = 1 }, cast with `as usize`
Week_as_usize(w) ==
    CASE w = "One" -> 0
      [] w = "Two" -> 1

\* Week::PER_ITERATION
Week_PER_ITERATION == 2

\* ActiveDay::PER_WEEK
ActiveDay_PER_WEEK == 5

\* pub enum ActiveDay { Monday = 0, .. Friday = 4 }, cast with `as usize`
ActiveDay_as_usize(d) ==
    CASE d = "Monday" -> 0
      [] d = "Tuesday" -> 1
      [] d = "Wednesday" -> 2
      [] d = "Thursday" -> 3
      [] d = "Friday" -> 4

\* pub fn num_days_from_monday(self) -> usize
num_days_from_monday(self) == ActiveDay_as_usize(self)

\* from_i64 with its arms counted from one
ActiveDay_from_i64_OneBased(n) ==
    CASE n = 1 -> Some("Monday")
      [] n = 2 -> Some("Tuesday")
      [] n = 3 -> Some("Wednesday")
      [] n = 4 -> Some("Thursday")
      [] n = 5 -> Some("Friday")
      [] OTHER -> None

\* fn from_i64(n: i64) -> Option<Self>
ActiveDay_from_i64(n) ==
    CASE n = 0 -> Some("Monday")
      [] n = 1 -> Some("Tuesday")
      [] n = 2 -> Some("Wednesday")
      [] n = 3 -> Some("Thursday")
      [] n = 4 -> Some("Friday")
      [] OTHER -> None

\* fn from_u64(n: u64) -> Option<Self>
ActiveDay_from_u64(n) ==
    CASE n = 0 -> Some("Monday")
      [] n = 1 -> Some("Tuesday")
      [] n = 2 -> Some("Wednesday")
      [] n = 3 -> Some("Thursday")
      [] n = 4 -> Some("Friday")
      [] OTHER -> None

\* FromPrimitive::from_usize, the provided method: widens to u64 and calls
\* from_u64
ActiveDay_from_usize(n) == ActiveDay_from_u64(n)

\* the discriminants of Break and Third exchanged
Period_as_usize_BreakAfterThird(p) ==
    CASE p = "Tutor" -> 0
      [] p = "First" -> 1
      [] p = "Second" -> 2
      [] p = "Break" -> 4
      [] p = "Third" -> 3
      [] p = "Fourth" -> 5
      [] p = "Lunch" -> 6
      [] p = "Fifth" -> 7

\* pub enum Period { Tutor = 0, .. Fifth = 7 }, cast with `as usize`
Period_as_usize(p) ==
    CASE p = "Tutor" -> 0
      [] p = "First" -> 1
      [] p = "Second" -> 2
      [] p = "Break" -> 3
      [] p = "Third" -> 4
      [] p = "Fourth" -> 5
      [] p = "Lunch" -> 6
      [] p = "Fifth" -> 7

\* the slot count of the five-slot schema
Period_PER_DAY_FiveSlot == 5

\* Period::PER_DAY
Period_PER_DAY == 8

\* Period::PER_WEEK
Period_PER_WEEK == Period_PER_DAY * ActiveDay_PER_WEEK

\* Period::PER_ITERATION
Period_PER_ITERATION == Period_PER_WEEK * Week_PER_ITERATION

\* with_index with the arms of Break and Third exchanged
Period_with_index_Swapped(index) ==
    CASE index = 0 -> <<"Some", "Tutor">>
      [] index = 1 -> <<"Some", "First">>
      [] index = 2 -> <<"Some", "Second">>
      [] index = 3 -> <<"Some", "Third">>
      [] index = 4 -> <<"Some", "Break">>
      [] index = 5 -> <<"Some", "Fourth">>
      [] index = 6 -> <<"Some", "Lunch">>
      [] index = 7 -> <<"Some", "Fifth">>
      [] OTHER -> <<"None">>

\* with_index without the arm of Fifth
Period_with_index_NoFifth(index) ==
    CASE index = 0 -> Some("Tutor")
      [] index = 1 -> Some("First")
      [] index = 2 -> Some("Second")
      [] index = 3 -> Some("Break")
      [] index = 4 -> Some("Third")
      [] index = 5 -> Some("Fourth")
      [] index = 6 -> Some("Lunch")
      [] OTHER -> None

\* fn with_index(index: usize) -> Option<Self>
Period_with_index(index) ==
    CASE index = 0 -> Some("Tutor")
      [] index = 1 -> Some("First")
      [] index = 2 -> Some("Second")
      [] index = 3 -> Some("Break")
      [] index = 4 -> Some("Third")
      [] index = 5 -> Some("Fourth")
      [] index = 6 -> Some("Lunch")
      [] index = 7 -> Some("Fifth")
      [] OTHER -> None

(***************************************************************************)
(*              timeslot.rs: FromPrimitive for ActiveDay                   *)
(***************************************************************************)

\* The largest magnitude of the integers the caller converts.
MaxOrdinal == 20

InitOrdinalVars ==
    /\ ordinal \in -MaxOrdinal..MaxOrdinal
    /\ by_i64 = Unset
    /\ by_u64 = Unset
    /\ days_back = Unset

\* let by_i64 = ActiveDay::from_i64(ordinal);
CallFromI64 ==
    /\ by_i64 = Unset
    /\ by_i64' = ActiveDay_from_i64(ordinal)
    /\ UNCHANGED <<ordinal, by_u64, days_back>>
    /\ UNCHANGED <<rangedVars, indexVars, timeVars, resolveVars, macroVars,
                   compareVars, fiveIndexVars, fiveTimeVars, chronoVars,
                   secondsVars>>

\* let by_u64 = ActiveDay::from_u64(ordinal);
\* (a u64 argument: the ordinal is not negative)
CallFromU64 ==
    /\ ordinal >= 0
    /\ by_u64 = Unset
    /\ by_u64' = ActiveDay_from_u64(ordinal)
    /\ UNCHANGED <<ordinal, by_i64, days_back>>
    /\ UNCHANGED <<rangedVars, indexVars, timeVars, resolveVars, macroVars,
                   compareVars, fiveIndexVars, fiveTimeVars, chronoVars,
                   secondsVars>>

\* The days the caller holds: the payloads of by_i64 and by_u64.
ConvertedDays ==
    (IF IsSome(by_i64) THEN {Unwrap(by_i64)} ELSE {})
    \cup (IF IsSome(by_u64) THEN {Unwrap(by_u64)} ELSE {})

\* let days_back = day.num_days_from_monday();
CallNumDaysFromMonday ==
    /\ days_back = Unset
    /\ \E day \in ConvertedDays : days_back' = Ret(num_days_from_monday(day))
    /\ UNCHANGED <<ordinal, by_i64, by_u64>>
    /\ UNCHANGED <<rangedVars, indexVars, timeVars, resolveVars, macroVars,
                   compareVars, fiveIndexVars, fiveTimeVars, chronoVars,
                   secondsVars>>

NextOrdinal == CallFromI64 \/ CallFromU64 \/ CallNumDaysFromMonday

InitOrdinal ==
    /\ IdleRangedVars
    /\ IdleIndexVars
    /\ IdleTimeVars
    /\ IdleResolveVars
    /\ IdleMacroVars
    /\ IdleCompareVars
    /\ InitOrdinalVars
    /\ IdleFiveIndexVars
    /\ IdleFiveTimeVars
    /\ IdleChronoVars
    /\ IdleSecondsVars

SpecOrdinal == InitOrdinal /\ [][NextOrdinal]_vars

(***************************************************************************)
(*                        timeslot.rs: TimeSlot                            *)
(***************************************************************************)

\* pub struct TimeSlot { pub week, pub day, pub period }
TimeSlots == [week : Weeks, day : ActiveDays, period : Periods]

\* TimeSlot::PER_DAY, PER_WEEK, PER_ITERATION
TimeSlot_PER_DAY == Period_PER_DAY
TimeSlot_PER_WEEK == Period_PER_WEEK
TimeSlot_PER_ITERATION == Period_PER_ITERATION

\* The result of a call that may panic: Ret(x), or Panic when an unwrap()
\* met None.
Panic == <<"Panic">>

\* with_index deciding the week by PER_DAY instead of PER_WEEK
TimeSlot_with_index_WeekByDay(ranged_index) ==
    LET index == ranged_index[1]
        week == IF index \div TimeSlot_PER_DAY = 0 THEN "One" ELSE "Two"
        day == ActiveDay_from_usize((index % TimeSlot_PER_WEEK)
                                        \div TimeSlot_PER_DAY)
        per == Period_with_index(index % TimeSlot_PER_DAY)
    IN  IF IsSome(day) /\ IsSome(per)
        THEN Ret([week |-> week, day |-> Unwrap(day), period |-> Unwrap(per)])
        ELSE Panic

\* pub fn with_index(index: RangedUsize<0, { Self::PER_ITERATION - 1 }>) -> Self
TimeSlot_with_index(ranged_index) ==
    LET index == Ranged_get(ranged_index)
        week == IF index \div TimeSlot_PER_WEEK = 0 THEN "One" ELSE "Two"
        day == ActiveDay_from_usize((index % TimeSlot_PER_WEEK)
                                        \div TimeSlot_PER_DAY)
        per == Period_with_index(index % TimeSlot_PER_DAY)
    IN  IF IsSome(day) /\ IsSome(per)
        THEN Ret([week |-> week, day |-> Unwrap(day), period |-> Unwrap(per)])
        ELSE Panic

\* index with the radices of the week and the day exchanged
TimeSlot_index_SwappedRadix(self) ==
    Week_as_usize(self.week) * TimeSlot_PER_DAY
        + num_days_from_monday(self.day) * TimeSlot_PER_WEEK
        + Period_as_usize(self.period)

\* index with the day as the most significant digit
TimeSlot_index_DayMajor(self) ==
    num_days_from_monday(self.day) * (TimeSlot_PER_DAY * Week_PER_ITERATION)
        + Week_as_usize(self.week) * TimeSlot_PER_DAY
        + Period_as_usize(self.period)

\* pub fn index(self) -> usize
TimeSlot_index(self) ==
    Week_as_usize(self.week) * TimeSlot_PER_WEEK
        + num_days_from_monday(self.day) * TimeSlot_PER_DAY
        + Period_as_usize(self.period)

\* The largest usize the caller hands to RangedUsize::new.
MaxRawIndex == 81

InitIndexVars ==
    /\ arg_index \in 0..MaxRawIndex
    /\ arg_slot \in TimeSlots
    /\ ranged = Unset
    /\ decoded = Unset
    /\ decoded_index = Unset
    /\ encoded = Unset
    /\ reranged = Unset
    /\ redecoded = Unset

\* let ranged = RangedUsize::new(arg_index);
CallRangedIndex ==
    /\ ranged = Unset
    /\ ranged' = Ranged_new(0, TimeSlot_PER_ITERATION - 1, arg_index)
    /\ UNCHANGED <<arg_index, arg_slot, decoded, decoded_index, encoded,
                   reranged, redecoded>>
    /\ UNCHANGED <<rangedVars, timeVars, resolveVars, macroVars, compareVars,
                   ordinalVars, fiveIndexVars, fiveTimeVars, chronoVars,
                   secondsVars>>

\* let decoded = TimeSlot::with_index(ranged.unwrap());
\* (the caller only unwraps a Some)
CallWithIndex ==
    /\ IsSome(ranged)
    /\ decoded = Unset
    /\ decoded' = TimeSlot_with_index(Unwrap(ranged))
    /\ UNCHANGED <<arg_index, arg_slot, ranged, decoded_index, encoded,
                   reranged, redecoded>>
    /\ UNCHANGED <<rangedVars, timeVars, resolveVars, macroVars, compareVars,
                   ordinalVars, fiveIndexVars, fiveTimeVars, chronoVars,
                   secondsVars>>

\* let decoded_index = decoded.index();
CallIndexOfDecoded ==
    /\ IsRet(decoded)
    /\ decoded_index = Unset
    /\ decoded_index' = Ret(TimeSlot_index(Val(decoded)))
    /\ UNCHANGED <<arg_index, arg_slot, ranged, decoded, encoded, reranged,
                   redecoded>>
    /\ UNCHANGED <<rangedVars, timeVars, resolveVars, macroVars, compareVars,
                   ordinalVars, fiveIndexVars, fiveTimeVars, chronoVars,
                   secondsVars>>

\* let encoded = arg_slot.index();
CallIndex ==
    /\ encoded = Unset
    /\ encoded' = Ret(TimeSlot_index(arg_slot))
    /\ UNCHANGED <<arg_index, arg_slot, ranged, decoded, decoded_index,
                   reranged, redecoded>>
    /\ UNCHANGED <<rangedVars, timeVars, resolveVars, macroVars, compareVars,
                   ordinalVars, fiveIndexVars, fiveTimeVars, chronoVars,
                   secondsVars>>

\* let reranged = RangedUsize::new(encoded);
CallRangedEncoded ==
    /\ IsRet(encoded)
    /\ reranged = Unset
    /\ reranged' = Ranged_new(0, TimeSlot_PER_ITERATION - 1, Val(encoded))
    /\ UNCHANGED <<arg_index, arg_slot, ranged, decoded, decoded_index,
                   encoded, redecoded>>
    /\ UNCHANGED <<rangedVars, timeVars, resolveVars, macroVars, compareVars,
                   ordinalVars, fiveIndexVars, fiveTimeVars, chronoVars,
                   secondsVars>>

\* let redecoded = TimeSlot::with_index(reranged.unwrap());
CallWithIndexOfEncoded ==
    /\ IsSome(reranged)
    /\ redecoded = Unset
    /\ redecoded' = TimeSlot_with_index(Unwrap(reranged))
    /\ UNCHANGED <<arg_index, arg_slot, ranged, decoded, decoded_index,
                   encoded, reranged>>
    /\ UNCHANGED <<rangedVars, timeVars, resolveVars, macroVars, compareVars,
                   ordinalVars, fiveIndexVars, fiveTimeVars, chronoVars,
                   secondsVars>>

NextIndex ==
    \/ CallRangedIndex
    \/ CallWithIndex
    \/ CallIndexOfDecoded
    \/ CallIndex
    \/ CallRangedEncoded
    \/ CallWithIndexOfEncoded

InitIndex ==
    /\ IdleRangedVars
    /\ InitIndexVars
    /\ IdleTimeVars
    /\ IdleResolveVars
    /\ IdleMacroVars
    /\ IdleCompareVars
    /\ IdleOrdinalVars
    /\ IdleFiveIndexVars
    /\ IdleFiveTimeVars
    /\ IdleChronoVars
    /\ IdleSecondsVars

SpecIndex == InitIndex /\ [][NextIndex]_vars


(***************************************************************************)
(*                    timeslot.rs: Period::from_time                       *)
(***************************************************************************)

\* The seconds of the minute the caller draws from: both ends and the values
\* the tests of the crate use.
SecondsOfMinute == {0, 10, 22, 23, 45, 59}

\* chrono::NaiveTime, by its hour(), minute() and second()
NaiveTimes == [hour : 0..23, minute : 0..59, second : SecondsOfMinute]

\* time.hour() * 60 + time.minute(), in u32: at most 23 * 60 + 59, so the
\* arithmetic never wraps
minutes_into_day(t) == t.hour * 60 + t.minute

\* from_time with the upper bound of First included in First
Period_from_time_InclusiveEnd(t) ==
    LET m == minutes_into_day(t)
    IN  CASE m \in 505..529 -> Some("Tutor")
          [] m \in 530..590 -> Some("First")
          [] m \in 591..649 -> Some("Second")
          [] m \in 650..669 -> Some("Break")
          [] m \in 670..729 -> Some("Third")
          [] m \in 730..789 -> Some("Fourth")
          [] m \in 790..834 -> Some("Lunch")
          [] m \in 835..894 -> Some("Fifth")
          [] OTHER -> None

\* from_time without the arm of Lunch
Period_from_time_NoLunch(t) ==
    LET m == minutes_into_day(t)
    IN  CASE m \in 505..529 -> Some("Tutor")
          [] m \in 530..589 -> Some("First")
          [] m \in 590..649 -> Some("Second")
          [] m \in 650..669 -> Some("Break")
          [] m \in 670..729 -> Some("Third")
          [] m \in 730..789 -> Some("Fourth")
          [] m \in 835..894 -> Some("Fifth")
          [] OTHER -> None

\* The arms of the match of from_time as written: <<first minute, last
\* minute, variant>>, both ends included (`505..=529 => Some(Period::Tutor)`).
Period_from_time_arms ==
    << <<505, 529, "Tutor">>, <<530, 589, "First">>, <<590, 649, "Second">>,
       <<650, 669, "Break">>, <<670, 729, "Third">>, <<730, 789, "Fourth">>,
       <<790, 834, "Lunch">>, <<835, 894, "Fifth">> >>

\* from_time with the last minute of Break unallocated
Period_from_time_ShortBreak(t) ==
    LET m == minutes_into_day(t)
    IN  CASE m \in 505..529 -> Some("Tutor")
          [] m \in 530..589 -> Some("First")
          [] m \in 590..649 -> Some("Second")
          [] m \in 650..668 -> Some("Break")
          [] m \in 670..729 -> Some("Third")
          [] m \in 730..789 -> Some("Fourth")
          [] m \in 790..834 -> Some("Lunch")
          [] m \in 835..894 -> Some("Fifth")
          [] OTHER -> None

\* from_time rounding the time to the nearest minute
Period_from_time_RoundsSeconds(t) ==
    LET m == minutes_into_day(t) + (IF t.second >= 30 THEN 1 ELSE 0)
    IN  CASE m \in 505..529 -> Some("Tutor")
          [] m \in 530..589 -> Some("First")
          [] m \in 590..649 -> Some("Second")
          [] m \in 650..669 -> Some("Break")
          [] m \in 670..729 -> Some("Third")
          [] m \in 730..789 -> Some("Fourth")
          [] m \in 790..834 -> Some("Lunch")
          [] m \in 835..894 -> Some("Fifth")
          [] OTHER -> None

\* pub fn from_time(time: NaiveTime) -> Option<Self>
Period_from_time(t) ==
    LET m == minutes_into_day(t)
    IN  CASE m \in 505..529 -> Some("Tutor")
          [] m \in 530..589 -> Some("First")
          [] m \in 590..649 -> Some("Second")
          [] m \in 650..669 -> Some("Break")
          [] m \in 670..729 -> Some("Third")
          [] m \in 730..789 -> Some("Fourth")
          [] m \in 790..834 -> Some("Lunch")
          [] m \in 835..894 -> Some("Fifth")
          [] OTHER -> None

InitTimeVars ==
    /\ time \in NaiveTimes
    /\ period = Unset

\* let period = Period::from_time(time);
CallFromTime ==
    /\ period = Unset
    /\ period' = Period_from_time(time)
    /\ UNCHANGED time
    /\ UNCHANGED <<rangedVars, indexVars, resolveVars, macroVars, compareVars,
                   ordinalVars, fiveIndexVars, fiveTimeVars, chronoVars,
                   secondsVars>>

NextClassify == CallFromTime

InitClassify ==
    /\ IdleRangedVars
    /\ IdleIndexVars
    /\ InitTimeVars
    /\ IdleResolveVars
    /\ IdleMacroVars
    /\ IdleCompareVars
    /\ IdleOrdinalVars
    /\ IdleFiveIndexVars
    /\ IdleFiveTimeVars
    /\ IdleChronoVars
    /\ IdleSecondsVars

SpecClassify == InitClassify /\ [][NextClassify]_vars


(***************************************************************************)
(*        timeslot.rs: Period::from_time of one minute, two seconds        *)
(***************************************************************************)

InitSecondsVars ==
    /\ other_second \in SecondsOfMinute
    /\ other_period = Unset

\* let other_period = Period::from_time(time.with_second(other_second));
CallFromTimeOther ==
    /\ other_period = Unset
    /\ other_period' =
           Period_from_time([time EXCEPT !.second = other_second])
    /\ UNCHANGED other_second
    /\ UNCHANGED <<rangedVars, indexVars, timeVars, resolveVars, macroVars,
                   compareVars, ordinalVars, fiveIndexVars, fiveTimeVars,
                   chronoVars>>

NextSeconds == CallFromTime \/ CallFromTimeOther

InitSeconds ==
    /\ IdleRangedVars
    /\ IdleIndexVars
    /\ InitTimeVars
    /\ IdleResolveVars
    /\ IdleMacroVars
    /\ IdleCompareVars
    /\ IdleOrdinalVars
    /\ IdleFiveIndexVars
    /\ IdleFiveTimeVars
    /\ IdleChronoVars
    /\ InitSecondsVars

SpecSeconds == InitSeconds /\ [][NextSeconds]_vars


(***************************************************************************)
(*       timeslot.rs: TryFrom<Weekday> and TimeSlot::from_datetime         *)
(***************************************************************************)

\* chrono::Weekday
Weekdays == {"Mon", "Tue", "Wed", "Thu", "Fri", "Sat", "Sun"}

\* try_from with the arms of Tue and Thu exchanged
ActiveDay_try_from_Swapped(weekday) ==
    CASE weekday = "Mon" -> <<"Ok", "Monday">>
      [] weekday = "Tue" -> <<"Ok", "Thursday">>
      [] weekday = "Wed" -> <<"Ok", "Wednesday">>
      [] weekday = "Thu" -> <<"Ok", "Tuesday">>
      [] weekday = "Fri" -> <<"Ok", "Friday">>
      [] OTHER -> <<"Err">>

\* impl TryFrom<Weekday> for ActiveDay
ActiveDay_try_from(weekday) ==
    CASE weekday = "Mon" -> <<"Ok", "Monday">>
      [] weekday = "Tue" -> <<"Ok", "Tuesday">>
      [] weekday = "Wed" -> <<"Ok", "Wednesday">>
      [] weekday = "Thu" -> <<"Ok", "Thursday">>
      [] weekday = "Fri" -> <<"Ok", "Friday">>
      [] OTHER -> <<"Err">>

\* Result::ok
Result_ok(r) == IF IsOk(r) THEN Some(r[2]) ELSE None

\* The seconds of the minute the date-times are drawn with.
DateTimeSeconds == {0, 10, 59}

\* chrono::DateTime<Tz>, by its weekday() and time()
DateTimes ==
    [weekday : Weekdays,
     time : [hour : 0..23, minute : 0..59, second : DateTimeSeconds]]

\* from_datetime classifying the time before it looks at the weekday, and
\* taking a weekend day for a Friday
TimeSlot_from_datetime_WeekendAsFriday(week, dt) ==
    LET day == Result_ok(ActiveDay_try_from(dt.weekday))
        time_slot == Period_from_time(dt.time)
    IN  IF ~IsSome(time_slot) THEN None
        ELSE Some([week |-> week,
                   day |-> IF IsSome(day) THEN Unwrap(day) ELSE "Friday",
                   period |-> Unwrap(time_slot)])

\* from_datetime always answering for week one
TimeSlot_from_datetime_WeekOne(week, dt) ==
    LET day == Result_ok(ActiveDay_try_from(dt.weekday))
        time_slot == Period_from_time(dt.time)
    IN  IF ~IsSome(day) THEN None
        ELSE IF ~IsSome(time_slot) THEN None
        ELSE Some([week |-> "One", day |-> Unwrap(day),
                   period |-> Unwrap(time_slot)])

\* pub fn from_datetime<Tz>(week: Week, datetime: DateTime<Tz>) -> Option<Self>
TimeSlot_from_datetime(week, dt) ==
    LET day == Result_ok(ActiveDay_try_from(dt.weekday))
        time_slot == Period_from_time(dt.time)
    IN  IF ~IsSome(day) THEN None
        ELSE IF ~IsSome(time_slot) THEN None
        ELSE Some([week |-> week, day |-> Unwrap(day),
                   period |-> Unwrap(time_slot)])

\* The caller also classifies datetime.time() on its own.
InitResolveVars ==
    /\ arg_week \in Weeks
    /\ datetime \in DateTimes
    /\ active_day = Unset
    /\ resolved = Unset
    /\ time = datetime.time
    /\ period = Unset

\* let active_day = ActiveDay::try_from(datetime.weekday());
CallActiveDayTryFrom ==
    /\ active_day = Unset
    /\ active_day' = ActiveDay_try_from(datetime.weekday)
    /\ UNCHANGED <<arg_week, datetime, resolved>>
    /\ UNCHANGED <<rangedVars, indexVars, timeVars, macroVars, compareVars,
                   ordinalVars, fiveIndexVars, fiveTimeVars, chronoVars,
                   secondsVars>>

\* let resolved = TimeSlot::from_datetime(arg_week, datetime);
CallFromDatetime ==
    /\ resolved = Unset
    /\ resolved' = TimeSlot_from_datetime(arg_week, datetime)
    /\ UNCHANGED <<arg_week, datetime, active_day>>
    /\ UNCHANGED <<rangedVars, indexVars, timeVars, macroVars, compareVars,
                   ordinalVars, fiveIndexVars, fiveTimeVars, chronoVars,
                   secondsVars>>

NextResolve == CallActiveDayTryFrom \/ CallFromDatetime \/ CallFromTime

InitResolve ==
    /\ IdleRangedVars
    /\ IdleIndexVars
    /\ InitResolveVars
    /\ IdleMacroVars
    /\ IdleCompareVars
    /\ IdleOrdinalVars
    /\ IdleFiveIndexVars
    /\ IdleFiveTimeVars
    /\ IdleChronoVars
    /\ IdleSecondsVars

SpecResolve == InitResolve /\ [][NextResolve]_vars

(***************************************************************************)
(*     timeslot.rs: from_datetime and index of two instants together       *)
(***************************************************************************)

\* The minutes of the day the two instants are drawn at: the first and the
\* last minute of every arm of from_time, and the minutes next to the school
\* day.
ChronoMinutes ==
    {504, 895}
    \cup {Period_from_time_arms[k][1] : k \in 1..Len(Period_from_time_arms)}
    \cup {Period_from_time_arms[k][2] : k \in 1..Len(Period_from_time_arms)}

ChronoDateTimes ==
    [weekday : Weekdays,
     time : {[hour |-> m \div 60, minute |-> m % 60, second |-> 0] :
                m \in ChronoMinutes}]

InitChronoVars ==
    /\ arg_week \in Weeks
    /\ datetime \in ChronoDateTimes
    /\ active_day = Unset
    /\ resolved = Unset
    /\ later_week \in Weeks
    /\ later_datetime \in ChronoDateTimes
    /\ later_resolved = Unset
    /\ resolved_index = Unset
    /\ later_index = Unset

\* let later_resolved = TimeSlot::from_datetime(later_week, later_datetime);
CallFromDatetimeLater ==
    /\ later_resolved = Unset
    /\ later_resolved' = TimeSlot_from_datetime(later_week, later_datetime)
    /\ UNCHANGED <<later_week, later_datetime, resolved_index, later_index>>
    /\ UNCHANGED <<rangedVars, indexVars, timeVars, resolveVars, macroVars,
                   compareVars, ordinalVars, fiveIndexVars, fiveTimeVars,
                   secondsVars>>

\* let resolved_index = resolved.unwrap().index();
\* (the caller only unwraps a Some)
CallIndexOfResolved ==
    /\ IsSome(resolved)
    /\ resolved_index = Unset
    /\ resolved_index' = Ret(TimeSlot_index(Unwrap(resolved)))
    /\ UNCHANGED <<later_week, later_datetime, later_resolved, later_index>>
    /\ UNCHANGED <<rangedVars, indexVars, timeVars, resolveVars, macroVars,
                   compareVars, ordinalVars, fiveIndexVars, fiveTimeVars,
                   secondsVars>>

\* let later_index = later_resolved.unwrap().index();
CallIndexOfLater ==
    /\ IsSome(later_resolved)
    /\ later_index = Unset
    /\ later_index' = Ret(TimeSlot_index(Unwrap(later_resolved)))
    /\ UNCHANGED <<later_week, later_datetime, later_resolved,
                   resolved_index>>
    /\ UNCHANGED <<rangedVars, indexVars, timeVars, resolveVars, macroVars,
                   compareVars, ordinalVars, fiveIndexVars, fiveTimeVars,
                   secondsVars>>

NextChrono ==
    \/ CallFromDatetime
    \/ CallFromDatetimeLater
    \/ CallIndexOfResolved
    \/ CallIndexOfLater

InitChrono ==
    /\ IdleRangedVars
    /\ IdleIndexVars
    /\ IdleTimeVars
    /\ IdleMacroVars
    /\ IdleCompareVars
    /\ IdleOrdinalVars
    /\ IdleFiveIndexVars
    /\ IdleFiveTimeVars
    /\ InitChronoVars
    /\ IdleSecondsVars

SpecChrono == InitChrono /\ [][NextChrono]_vars

(***************************************************************************)
(*                       timeslot.rs: timeslot!                            *)
(***************************************************************************)

\* The arms of macro_rules! timeslot, in their order: the token of the
\* pattern, as its characters, and the literal handed to RangedUsize::new.
timeslot_arms ==
    << [pattern |-> <<"W", "1", "M", "P", "T">>, index |-> 0],
       [pattern |-> <<"W", "1", "M", "P", "1">>, index |-> 1],
       [pattern |-> <<"W", "1", "M", "P", "2">>, index |-> 2],
       [pattern |-> <<"W", "1", "M", "P", "B">>, index |-> 3],
       [pattern |-> <<"W", "1", "M", "P", "3">>, index |-> 4],
       [pattern |-> <<"W", "1", "M", "P", "4">>, index |-> 5],
       [pattern |-> <<"W", "1", "M", "P", "L">>, index |-> 6],
       [pattern |-> <<"W", "1", "M", "P", "5">>, index |-> 7],
       [pattern |-> <<"W", "1", "T", "P", "T">>, index |-> 8],
       [pattern |-> <<"W", "1", "T", "P", "1">>, index |-> 9],
       [pattern |-> <<"W", "1", "T", "P", "2">>, index |-> 10],
       [pattern |-> <<"W", "1", "T", "P", "B">>, index |-> 11],
       [pattern |-> <<"W", "1", "T", "P", "3">>, index |-> 12],
       [pattern |-> <<"W", "1", "T", "P", "4">>, index |-> 13],
       [pattern |-> <<"W", "1", "T", "P", "L">>, index |-> 14],
       [pattern |-> <<"W", "1", "T", "P", "5">>, index |-> 15],
       [pattern |-> <<"W", "1", "W", "P", "T">>, index |-> 16],
       [pattern |-> <<"W", "1", "W", "P", "1">>, index |-> 17],
       [pattern |-> <<"W", "1", "W", "P", "2">>, index |-> 18],
       [pattern |-> <<"W", "1", "W", "P", "B">>, index |-> 19],
       [pattern |-> <<"W", "1", "W", "P", "3">>, index |-> 20],
       [pattern |-> <<"W", "1", "W", "P", "4">>, index |-> 21],
       [pattern |-> <<"W", "1", "W", "P", "L">>, index |-> 22],
       [pattern |-> <<"W", "1", "W", "P", "5">>, index |-> 23],
       [pattern |-> <<"W", "1", "R", "P", "T">>, index |-> 24],
       [pattern |-> <<"W", "1", "R", "P", "1">>, index |-> 25],
       [pattern |-> <<"W", "1", "R", "P", "2">>, index |-> 26],
       [pattern |-> <<"W", "1", "R", "P", "B">>, index |-> 27],
       [pattern |-> <<"W", "1", "R", "P", "3">>, index |-> 28],
       [pattern |-> <<"W", "1", "R", "P", "4">>, index |-> 29],
       [pattern |-> <<"W", "1", "R", "P", "L">>, index |-> 30],
       [pattern |-> <<"W", "1", "R", "P", "5">>, index |-> 31],
       [pattern |-> <<"W", "1", "F", "P", "T">>, index |-> 32],
       [pattern |-> <<"W", "1", "F", "P", "1">>, index |-> 33],
       [pattern |-> <<"W", "1", "F", "P", "2">>, index |-> 34],
       [pattern |-> <<"W", "1", "F", "P", "B">>, index |-> 35],
       [pattern |-> <<"W", "1", "F", "P", "3">>, index |-> 36],
       [pattern |-> <<"W", "1", "F", "P", "4">>, index |-> 37],
       [pattern |-> <<"W", "1", "F", "P", "L">>, index |-> 38],
       [pattern |-> <<"W", "1", "F", "P", "5">>, index |-> 39],
       [pattern |-> <<"W", "2", "M", "P", "T">>, index |-> 40],
       [pattern |-> <<"W", "2", "M", "P", "1">>, index |-> 41],
       [pattern |-> <<"W", "2", "M", "P", "2">>, index |-> 42],
       [pattern |-> <<"W", "2", "M", "P", "B">>, index |-> 43],
       [pattern |-> <<"W", "2", "M", "P", "3">>, index |-> 44],
       [pattern |-> <<"W", "2", "M", "P", "4">>, index |-> 45],
       [pattern |-> <<"W", "2", "M", "P", "L">>, index |-> 46],
       [pattern |-> <<"W", "2", "M", "P", "5">>, index |-> 47],
       [pattern |-> <<"W", "2", "T", "P", "T">>, index |-> 48],
       [pattern |-> <<"W", "2", "T", "P", "1">>, index |-> 49],
       [pattern |-> <<"W", "2", "T", "P", "2">>, index |-> 50],
       [pattern |-> <<"W", "2", "T", "P", "B">>, index |-> 51],
       [pattern |-> <<"W", "2", "T", "P", "3">>, index |-> 52],
       [pattern |-> <<"W", "2", "T", "P", "4">>, index |-> 53],
       [pattern |-> <<"W", "2", "T", "P", "L">>, index |-> 54],
       [pattern |-> <<"W", "2", "T", "P", "5">>, index |-> 55],
       [pattern |-> <<"W", "2", "W", "P", "T">>, index |-> 56],
       [pattern |-> <<"W", "2", "W", "P", "1">>, index |-> 57],
       [pattern |-> <<"W", "2", "W", "P", "2">>, index |-> 58],
       [pattern |-> <<"W", "2", "W", "P", "B">>, index |-> 59],
       [pattern |-> <<"W", "2", "W", "P", "3">>, index |-> 60],
       [pattern |-> <<"W", "2", "W", "P", "4">>, index |-> 61],
       [pattern |-> <<"W", "2", "W", "P", "L">>, index |-> 62],
       [pattern |-> <<"W", "2", "W", "P", "5">>, index |-> 63],
       [pattern |-> <<"W", "2", "R", "P", "T">>, index |-> 64],
       [pattern |-> <<"W", "2", "R", "P", "1">>, index |-> 65],
       [pattern |-> <<"W", "2", "R", "P", "2">>, index |-> 66],
       [pattern |-> <<"W", "2", "R", "P", "B">>, index |-> 67],
       [pattern |-> <<"W", "2", "R", "P", "3">>, index |-> 68],
       [pattern |-> <<"W", "2", "R", "P", "4">>, index |-> 69],
       [pattern |-> <<"W", "2", "R", "P", "L">>, index |-> 70],
       [pattern |-> <<"W", "2", "R", "P", "5">>, index |-> 71],
       [pattern |-> <<"W", "2", "F", "P", "T">>, index |-> 72],
       [pattern |-> <<"W", "2", "F", "P", "1">>, index |-> 73],
       [pattern |-> <<"W", "2", "F", "P", "2">>, index |-> 74],
       [pattern |-> <<"W", "2", "F", "P", "B">>, index |-> 75],
       [pattern |-> <<"W", "2", "F", "P", "3">>, index |-> 76],
       [pattern |-> <<"W", "2", "F", "P", "4">>, index |-> 77],
       [pattern |-> <<"W", "2", "F", "P", "L">>, index |-> 78],
       [pattern |-> <<"W", "2", "F", "P", "5">>, index |-> 79] >>

\* The tokens that are the pattern of an arm.
AcceptedTokens == {timeslot_arms[k].pattern : k \in 1..Len(timeslot_arms)}

\* The expansion fails to compile: no arm of the macro matches the token.
NoMatch == <<"NoMatch">>

\* TimeSlot::with_index(RangedUsize::new(n).unwrap()), the body of every arm
timeslot_arm_body(n) ==
    LET r == Ranged_new(0, TimeSlot_PER_ITERATION - 1, n)
    IN  IF IsSome(r) THEN TimeSlot_with_index(Unwrap(r)) ELSE Panic

\* The first arm whose pattern is the token, or 0.
timeslot_first_arm(tok) ==
    LET hits == {k \in 1..Len(timeslot_arms) : timeslot_arms[k].pattern = tok}
    IN  IF hits = {} THEN 0
        ELSE CHOOSE k \in hits : \A j \in hits : k <= j

\* timeslot! with the arm of W1MP1 handing 0 to RangedUsize::new
timeslot_macro_W1MP1Zero(tok) ==
    LET k == timeslot_first_arm(tok)
    IN  IF k = 0 THEN NoMatch
        ELSE IF tok = <<"W", "1", "M", "P", "1">> THEN timeslot_arm_body(0)
        ELSE timeslot_arm_body(timeslot_arms[k].index)

\* timeslot! with the arm of W2RP3 handing 67 to RangedUsize::new
timeslot_macro_W2RP3Typo(tok) ==
    LET k == timeslot_first_arm(tok)
    IN  IF k = 0 THEN NoMatch
        ELSE IF tok = <<"W", "2", "R", "P", "3">> THEN timeslot_arm_body(67)
        ELSE timeslot_arm_body(timeslot_arms[k].index)

\* The upper-case form of a character of a token.
UpperCase(c) ==
    CASE c = "w" -> "W"
      [] c = "d" -> "D"
      [] c = "p" -> "P"
      [] c = "i" -> "I"
      [] c = "m" -> "M"
      [] c = "t" -> "T"
      [] c = "r" -> "R"
      [] c = "f" -> "F"
      [] c = "s" -> "S"
      [] c = "b" -> "B"
      [] c = "l" -> "L"
      [] OTHER -> c

\* timeslot! matching its patterns without regard to case
timeslot_macro_IgnoreCase(tok) ==
    LET k == timeslot_first_arm([i \in 1..Len(tok) |-> UpperCase(tok[i])])
    IN  IF k = 0 THEN NoMatch
        ELSE timeslot_arm_body(timeslot_arms[k].index)

\* macro_rules! timeslot: the expansion of timeslot!(tok)
timeslot_macro(tok) ==
    LET k == timeslot_first_arm(tok)
    IN  IF k = 0 THEN NoMatch
        ELSE timeslot_arm_body(timeslot_arms[k].index)

\* The largest iteration number written in an iteration prefix.
MaxIteration == 2

DigitChars == <<"1", "2", "3", "4", "5", "6", "7", "8", "9">>

\* The tokens the users write: an optional iteration prefix, W, a week digit,
\* an optional D, a day letter, P and a period code, in either case and with
\* digits and letters outside the notation.
IterationPrefixes == {<<>>} \cup {<<"I", DigitChars[n]>> : n \in 1..MaxIteration}
WeekMarks == {"W", "w"}
WeekDigits == {"0", "1", "2", "3"}
DayMarks == {<<>>, <<"D">>, <<"d">>}
DayLetters == {"M", "T", "W", "R", "F", "S", "m", "t", "w", "r", "f"}
PeriodMarks == {"P", "p"}
PeriodCodes == {"T", "1", "2", "B", "3", "4", "L", "5", "0", "6", "t", "b",
                "l"}

WrittenTokens ==
    {i \o <<wm, wd>> \o dm \o <<dl, pm, pc>> :
        i \in IterationPrefixes, wm \in WeekMarks, wd \in WeekDigits,
        dm \in DayMarks, dl \in DayLetters, pm \in PeriodMarks,
        pc \in PeriodCodes}

InitMacroVars ==
    /\ token \in WrittenTokens
    /\ expanded = Unset
    /\ expanded_index = Unset

\* let expanded = timeslot!(token);
ExpandMacro ==
    /\ expanded = Unset
    /\ expanded' = timeslot_macro(token)
    /\ UNCHANGED <<token, expanded_index>>
    /\ UNCHANGED <<rangedVars, indexVars, timeVars, resolveVars, compareVars,
                   ordinalVars, fiveIndexVars, fiveTimeVars, chronoVars,
                   secondsVars>>

\* let expanded_index = expanded.index();
CallIndexOfExpanded ==
    /\ IsRet(expanded)
    /\ expanded_index = Unset
    /\ expanded_index' = Ret(TimeSlot_index(Val(expanded)))
    /\ UNCHANGED <<token, expanded>>
    /\ UNCHANGED <<rangedVars, indexVars, timeVars, resolveVars, compareVars,
                   ordinalVars, fiveIndexVars, fiveTimeVars, chronoVars,
                   secondsVars>>

NextMacro == ExpandMacro \/ CallIndexOfExpanded

InitMacro ==
    /\ IdleRangedVars
    /\ IdleIndexVars
    /\ IdleTimeVars
    /\ IdleResolveVars
    /\ InitMacroVars
    /\ IdleCompareVars
    /\ IdleOrdinalVars
    /\ IdleFiveIndexVars
    /\ IdleFiveTimeVars
    /\ IdleChronoVars
    /\ IdleSecondsVars

SpecMacro == InitMacro /\ [][NextMacro]_vars

(***************************************************************************)
(*          period.rs: the five-slot schema, Period and its index          *)
(***************************************************************************)

\* pub enum Week { WeekOne = 0, WeekTwo = 1 } of period.rs
period_rs_Weeks == {"WeekOne", "WeekTwo"}

\* pub enum TimeSlot { First = 0, .. Fifth = 4 } of period.rs
period_rs_TimeSlots == {"First", "Second", "Third", "Fourth", "Fifth"}

\* `self.week as usize`
period_rs_Week_as_usize(w) ==
    CASE w = "WeekOne" -> 0
      [] w = "WeekTwo" -> 1

\* `self.time_slot as usize`
period_rs_TimeSlot_as_usize(ts) ==
    CASE ts = "First" -> 0
      [] ts = "Second" -> 1
      [] ts = "Third" -> 2
      [] ts = "Fourth" -> 3
      [] ts = "Fifth" -> 4

\* chrono: Weekday::from_u8, Monday first
Weekday_from_u8(n) ==
    CASE n = 0 -> Some("Mon")
      [] n = 1 -> Some("Tue")
      [] n = 2 -> Some("Wed")
      [] n = 3 -> Some("Thu")
      [] n = 4 -> Some("Fri")
      [] n = 5 -> Some("Sat")
      [] n = 6 -> Some("Sun")
      [] OTHER -> None

\* chrono: Weekday::num_days_from_monday
Weekday_num_days_from_monday(d) ==
    CASE d = "Mon" -> 0
      [] d = "Tue" -> 1
      [] d = "Wed" -> 2
      [] d = "Thu" -> 3
      [] d = "Fri" -> 4
      [] d = "Sat" -> 5
      [] d = "Sun" -> 6

\* pub fn with_index(index: RangedU8<0, 49>) -> Self, of period.rs
period_rs_Period_with_index(ranged_index) ==
    LET index == Ranged_get(ranged_index)
        week == IF index \div 25 = 0 THEN "WeekOne" ELSE "WeekTwo"
        day == Weekday_from_u8((index % 25) \div 5)
        time_slot == CASE index % 5 = 0 -> "First"
                       [] index % 5 = 1 -> "Second"
                       [] index % 5 = 2 -> "Third"
                       [] index % 5 = 3 -> "Fourth"
                       [] OTHER -> "Fifth"
    IN  IF IsSome(day)
        THEN Ret([week |-> week, day |-> Unwrap(day),
                  time_slot |-> time_slot])
        ELSE Panic

\* index with the radices of the eight-slot schema
period_rs_Period_index_EightSlot(self) ==
    period_rs_Week_as_usize(self.week) * 40
        + Weekday_num_days_from_monday(self.day) * 8
        + period_rs_TimeSlot_as_usize(self.time_slot)

\* pub fn index(self) -> usize, of period.rs
period_rs_Period_index(self) ==
    period_rs_Week_as_usize(self.week) * 25
        + Weekday_num_days_from_monday(self.day) * 5
        + period_rs_TimeSlot_as_usize(self.time_slot)

\* The caller hands any u8 to RangedU8::new.
InitFiveIndexVars ==
    /\ five_arg \in PrimValues("u8")
    /\ five_ranged = Unset
    /\ five_decoded = Unset
    /\ five_index = Unset

\* let five_ranged = RangedU8::<0, 49>::new(five_arg);
CallRangedFive ==
    /\ five_ranged = Unset
    /\ five_ranged' = Ranged_new(0, 49, five_arg)
    /\ UNCHANGED <<five_arg, five_decoded, five_index>>
    /\ UNCHANGED <<rangedVars, indexVars, timeVars, resolveVars, macroVars,
                   compareVars, ordinalVars, fiveTimeVars, chronoVars,
                   secondsVars>>

\* let five_decoded = Period::with_index(five_ranged.unwrap());
\* (the caller only unwraps a Some)
CallFiveWithIndex ==
    /\ IsSome(five_ranged)
    /\ five_decoded = Unset
    /\ five_decoded' = period_rs_Period_with_index(Unwrap(five_ranged))
    /\ UNCHANGED <<five_arg, five_ranged, five_index>>
    /\ UNCHANGED <<rangedVars, indexVars, timeVars, resolveVars, macroVars,
                   compareVars, ordinalVars, fiveTimeVars, chronoVars,
                   secondsVars>>

\* let five_index = five_decoded.index();
CallFiveIndex ==
    /\ IsRet(five_decoded)
    /\ five_index = Unset
    /\ five_index' = Ret(period_rs_Period_index(Val(five_decoded)))
    /\ UNCHANGED <<five_arg, five_ranged, five_decoded>>
    /\ UNCHANGED <<rangedVars, indexVars, timeVars, resolveVars, macroVars,
                   compareVars, ordinalVars, fiveTimeVars, chronoVars,
                   secondsVars>>

NextFiveIndex == CallRangedFive \/ CallFiveWithIndex \/ CallFiveIndex

InitFiveIndex ==
    /\ IdleRangedVars
    /\ IdleIndexVars
    /\ IdleTimeVars
    /\ IdleResolveVars
    /\ IdleMacroVars
    /\ IdleCompareVars
    /\ IdleOrdinalVars
    /\ InitFiveIndexVars
    /\ IdleFiveTimeVars
    /\ IdleChronoVars
    /\ IdleSecondsVars

SpecFiveIndex == InitFiveIndex /\ [][NextFiveIndex]_vars

(***************************************************************************)
(*                   period.rs: TimeSlot::from_time                        *)
(***************************************************************************)

\* from_time taking the lunch gap for a part of Fifth
period_rs_TimeSlot_from_time_LunchAsFifth(t) ==
    LET m == minutes_into_day(t)
    IN  CASE m \in 530..589 -> Some("First")
          [] m \in 590..649 -> Some("Second")
          [] m \in 670..729 -> Some("Third")
          [] m \in 730..789 -> Some("Fourth")
          [] m \in 790..894 -> Some("Fifth")
          [] OTHER -> None

\* from_time with Third starting five minutes late
period_rs_TimeSlot_from_time_LateThird(t) ==
    LET m == minutes_into_day(t)
    IN  CASE m \in 530..589 -> Some("First")
          [] m \in 590..649 -> Some("Second")
          [] m \in 675..729 -> Some("Third")
          [] m \in 730..789 -> Some("Fourth")
          [] m \in 835..894 -> Some("Fifth")
          [] OTHER -> None

\* pub fn from_time(time: NaiveTime) -> Option<Self>, of period.rs
period_rs_TimeSlot_from_time(t) ==
    LET m == minutes_into_day(t)
    IN  CASE m \in 530..589 -> Some("First")
          [] m \in 590..649 -> Some("Second")
          [] m \in 670..729 -> Some("Third")
          [] m \in 730..789 -> Some("Fourth")
          [] m \in 835..894 -> Some("Fifth")
          [] OTHER -> None

InitFiveTimeVars ==
    /\ five_slot = Unset

\* let five_slot = TimeSlot::from_time(time);
CallFiveFromTime ==
    /\ five_slot = Unset
    /\ five_slot' = period_rs_TimeSlot_from_time(time)
    /\ UNCHANGED <<rangedVars, indexVars, timeVars, resolveVars, macroVars,
                   compareVars, ordinalVars, fiveIndexVars, chronoVars,
                   secondsVars>>

\* The caller classifies one time under both schemas.
NextFiveTime == CallFromTime \/ CallFiveFromTime

InitFiveTime ==
    /\ IdleRangedVars
    /\ IdleIndexVars
    /\ InitTimeVars
    /\ IdleResolveVars
    /\ IdleMacroVars
    /\ IdleCompareVars
    /\ IdleOrdinalVars
    /\ IdleFiveIndexVars
    /\ InitFiveTimeVars
    /\ IdleChronoVars
    /\ IdleSecondsVars

SpecFiveTime == InitFiveTime /\ [][NextFiveTime]_vars

(***************************************************************************)
(*                             Properties                                  *)
(***************************************************************************)

\* The orders the specification gives the enumerations in; the ordinal of a
\* variant is its position, counted from zero.
SpecWeekOrder == <<"One", "Two">>
SpecDayOrder == <<"Monday", "Tuesday", "Wednesday", "Thursday", "Friday">>
SpecPeriodOrder == <<"Tutor", "First", "Second", "Break", "Third", "Fourth",
                     "Lunch", "Fifth">>
Ordinal(order, x) == (CHOOSE k \in 1..Len(order) : order[k] = x) - 1

\* The canonical eight-slot table: <<slot, start, end>>, end excluded.
CanonicalTable ==
    << <<"Tutor", 505, 530>>, <<"First", 530, 590>>, <<"Second", 590, 650>>,
       <<"Break", 650, 670>>, <<"Third", 670, 730>>, <<"Fourth", 730, 790>>,
       <<"Lunch", 790, 835>>, <<"Fifth", 835, 895>> >>

\* The slot of the table whose half-open interval contains minute m.
TableLookup(m) ==
    LET hits == {k \in 1..Len(CanonicalTable) :
                    CanonicalTable[k][2] <= m /\ m < CanonicalTable[k][3]}
    IN  IF hits = {} THEN None
        ELSE Some(CanonicalTable[CHOOSE k \in hits : TRUE][1])

\* C1: for every index i in 0..=79, TimeSlot::with_index(i) returns and
\* TimeSlot::with_index(i).index() == i.
C1_IndexRoundTrip ==
    /\ (decoded # Unset /\ arg_index \in 0..79) => IsRet(decoded)
    /\ IsRet(decoded_index) => Val(decoded_index) = arg_index

C1_Witness ==
    /\ arg_index = 79
    /\ IsRet(decoded_index)
    /\ Val(decoded_index) = 79

\* C2: for every TimeSlot s built from any Week, ActiveDay and Period,
\* s.index() is accepted by RangedUsize::new and
\* TimeSlot::with_index(s.index()) == s.
C2_SlotRoundTrip ==
    /\ reranged # Unset => IsSome(reranged)
    /\ redecoded # Unset => redecoded = Ret(arg_slot)

C2_Witness ==
    /\ arg_slot = [week |-> "Two", day |-> "Thursday", period |-> "Break"]
    /\ redecoded = Ret(arg_slot)

\* C3: TimeSlot::index returns week_ordinal * 40 + day_ordinal * 8 +
\* period_ordinal, with PER_DAY = 8 and PER_WEEK = 40 (radices 2, 5, 8).
C3_MixedRadix ==
    /\ TimeSlot_PER_DAY = 8
    /\ TimeSlot_PER_WEEK = 40
    /\ TimeSlot_PER_ITERATION = 2 * 5 * 8
    /\ IsRet(encoded) =>
           Val(encoded) = Ordinal(SpecWeekOrder, arg_slot.week) * 40
                            + Ordinal(SpecDayOrder, arg_slot.day) * 8
                            + Ordinal(SpecPeriodOrder, arg_slot.period)

C3_Witness ==
    /\ arg_slot = [week |-> "Two", day |-> "Wednesday", period |-> "Break"]
    /\ encoded = Ret(59)

\* C4: for every index i in 0..=79, TimeSlot::with_index(i) has week One iff
\* i / 40 == 0 (else Two), the day with ordinal (i % 40) / 8 and the period
\* with ordinal i % 8; index 0 decodes to {One, Monday, Tutor} and index 79 to
\* {Two, Friday, Fifth}.
C4_Decode ==
    decoded # Unset =>
        /\ IsRet(decoded)
        /\ LET s == Val(decoded)
               i == arg_index
           IN  /\ s.week = (IF i \div 40 = 0 THEN "One" ELSE "Two")
               /\ Ordinal(SpecDayOrder, s.day) = (i % 40) \div 8
               /\ Ordinal(SpecPeriodOrder, s.period) = i % 8
               /\ i = 0 => s = [week |-> "One", day |-> "Monday",
                                period |-> "Tutor"]
               /\ i = 79 => s = [week |-> "Two", day |-> "Friday",
                                 period |-> "Fifth"]

C4_Witness ==
    /\ arg_index = 23
    /\ decoded = Ret([week |-> "One", day |-> "Wednesday", period |-> "Fifth"])

\* C5: for every TimeSlot, TimeSlot::index returns a value in
\* 0..TimeSlot::PER_ITERATION (0 <= index <= 79), so it is always a valid
\* index of an array of PER_ITERATION elements.
C5_IndexInRange ==
    /\ IsRet(encoded) =>
           /\ Val(encoded) \in 0..79
           /\ Val(encoded) < TimeSlot_PER_ITERATION
    /\ IsRet(decoded_index) =>
           /\ Val(decoded_index) \in 0..79
           /\ Val(decoded_index) < TimeSlot_PER_ITERATION

C5_Witness ==
    /\ arg_slot = [week |-> "Two", day |-> "Friday", period |-> "Fifth"]
    /\ encoded = Ret(79)

C7_RangeInvariant ==
    /\ \A r \in Instances :
           rtype.MIN <= Ranged_get(r) /\ Ranged_get(r) <= rtype.MAX
    /\ IsRet(got) => (rtype.MIN <= Val(got) /\ Val(got) <= rtype.MAX)
    /\ IsRet(prim) => (rtype.MIN <= Val(prim) /\ Val(prim) <= rtype.MAX)

C7_Witness ==
    /\ rtype.MAX < PrimMax(rtype.prim)
    /\ IsSome(made)
    /\ IsOk(tried)
    /\ IsRet(copied)
    /\ got = Ret(rtype.MAX)
    /\ prim = Ret(rtype.MAX)

\* C8: whenever new(v) returns Some(r), r.get() == v and the From conversion
\* of r to the primitive type also equals v.
C8_GetReturnsValidated ==
    /\ IsSome(made) => Unwrap(made) = <<value>>
    /\ IsOk(tried) => tried[2] = <<value>>
    /\ IsRet(copied) => Val(copied) = <<value>>
    /\ IsRet(got) => Val(got) = value
    /\ IsRet(prim) => Val(prim) = value

C8_Witness ==
    /\ rtype.MIN > 0
    /\ IsSome(made)
    /\ got = Ret(value)
    /\ prim = Ret(value)

\* C9: Period::from_time returns the slot of the canonical table whose
\* half-open interval [start, end) contains hour * 60 + minute, and None for
\* every other minute of the day; 12:40 classifies to Fourth.
C9_ClassifierMatchesTable ==
    period # Unset =>
        /\ period = TableLookup(time.hour * 60 + time.minute)
        /\ (time.hour * 60 + time.minute < 505) => period = None
        /\ (time.hour * 60 + time.minute >= 895) => period = None
        /\ (time.hour = 12 /\ time.minute = 40) => period = Some("Fourth")

C9_Witness ==
    /\ time.hour = 12
    /\ time.minute = 40
    /\ period = Some("Fourth")

\* C10: a time exactly at a slot's start minute classifies to that slot; a
\* time exactly at a slot's end minute classifies to the next slot and never
\* to the current one, or to None after the last slot (14:55); 09:50
\* classifies to Second, not First.
C10_BoundaryRule ==
    period # Unset =>
        LET m == time.hour * 60 + time.minute
            n == Len(CanonicalTable)
        IN  /\ \A k \in 1..n :
                   /\ m = CanonicalTable[k][2] =>
                          period = Some(CanonicalTable[k][1])
                   /\ m = CanonicalTable[k][3] =>
                          /\ period # Some(CanonicalTable[k][1])
                          /\ period = (IF k < n
                                       THEN Some(CanonicalTable[k + 1][1])
                                       ELSE None)
            /\ (time.hour = 9 /\ time.minute = 50) => period = Some("Second")
            /\ (time.hour = 14 /\ time.minute = 55) => period = None

C10_Witness ==
    /\ time.hour = 9
    /\ time.minute = 50
    /\ period = Some("Second")


\* The seven-day week, Monday first.
SpecWeekdayOrder == <<"Mon", "Tue", "Wed", "Thu", "Fri", "Sat", "Sun">>

\* C11: the conversion from Weekday to ActiveDay fails exactly for Saturday
\* and Sunday, and for Monday..Friday returns the ActiveDay with the same
\* Monday-first ordinal (0..4).
C11_WeekdayConversion ==
    active_day # Unset =>
        /\ (active_day = <<"Err">>) <=> (datetime.weekday \in {"Sat", "Sun"})
        /\ datetime.weekday \notin {"Sat", "Sun"} =>
               /\ IsOk(active_day)
               /\ active_day[2] \in ActiveDays
               /\ num_days_from_monday(active_day[2])
                      = Ordinal(SpecWeekdayOrder, datetime.weekday)
               /\ num_days_from_monday(active_day[2]) \in 0..4
               /\ Ordinal(SpecDayOrder, active_day[2])
                      = Ordinal(SpecWeekdayOrder, datetime.weekday)

C11_Witness ==
    /\ datetime.weekday = "Thu"
    /\ active_day = <<"Ok", "Thursday">>

\* C12: TimeSlot::from_datetime returns None whenever the weekday is Saturday
\* or Sunday, for every week and every time of day, also for the times that
\* classify to a period.
C12_WeekendFails ==
    (resolved # Unset /\ datetime.weekday \in {"Sat", "Sun"}) =>
        resolved = None

C12_Witness ==
    /\ arg_week = "One"
    /\ datetime.weekday = "Sat"
    /\ datetime.time.hour = 10
    /\ datetime.time.minute = 0
    /\ period = Some("Second")
    /\ resolved = None

\* C13: TimeSlot::from_datetime(week, dt) returns None if the time of dt does
\* not classify to a Period, and otherwise, on Monday..Friday, exactly
\* {week: the supplied week, day: the ActiveDay of dt's weekday,
\*  period: Period::from_time(dt.time())}.
C13_Resolution ==
    (resolved # Unset /\ period # Unset /\ active_day # Unset) =>
        /\ period = None => resolved = None
        /\ (IsSome(period) /\ IsOk(active_day)) =>
               resolved = Some([week |-> arg_week,
                                day |-> active_day[2],
                                period |-> Unwrap(period)])
        /\ (/\ arg_week = "Two"
            /\ datetime.weekday = "Mon"
            /\ datetime.time.hour = 10
            /\ datetime.time.minute = 30) =>
               resolved = Some([week |-> "Two", day |-> "Monday",
                                period |-> "Second"])

C13_Witness ==
    /\ arg_week = "Two"
    /\ datetime.weekday = "Mon"
    /\ datetime.time = [hour |-> 10, minute |-> 30, second |-> 10]
    /\ IsSome(period)
    /\ IsOk(active_day)
    /\ resolved = Some([week |-> "Two", day |-> "Monday", period |-> "Second"])

\* The notation W<w><d>P<p>: its week digits, day letters and period codes.
SpecWeekOfDigit(c) ==
    CASE c = "1" -> "One"
      [] c = "2" -> "Two"

SpecDayOfLetter(c) ==
    CASE c = "M" -> "Monday"
      [] c = "T" -> "Tuesday"
      [] c = "W" -> "Wednesday"
      [] c = "R" -> "Thursday"
      [] c = "F" -> "Friday"

SpecPeriodOfCode(c) ==
    CASE c = "T" -> "Tutor"
      [] c = "1" -> "First"
      [] c = "2" -> "Second"
      [] c = "B" -> "Break"
      [] c = "3" -> "Third"
      [] c = "4" -> "Fourth"
      [] c = "L" -> "Lunch"
      [] c = "5" -> "Fifth"

CanonicalTokens ==
    {<<"W", w, d, "P", c>> :
        w \in {"1", "2"}, d \in {"M", "T", "W", "R", "F"},
        c \in {"T", "1", "2", "B", "3", "4", "L", "5"}}

\* The TimeSlot a canonical token W<w><d>P<p> is written for.
SlotOfToken(t) ==
    [week |-> SpecWeekOfDigit(t[2]),
     day |-> SpecDayOfLetter(t[3]),
     period |-> SpecPeriodOfCode(t[5])]

\* The index computed from the components of a canonical token.
IndexOfToken(t) ==
    Ordinal(SpecWeekOrder, SlotOfToken(t).week) * 40
        + Ordinal(SpecDayOrder, SlotOfToken(t).day) * 8
        + Ordinal(SpecPeriodOrder, SlotOfToken(t).period)

LowerCaseChars == {"w", "d", "p", "i", "m", "t", "r", "f", "s", "b", "l"}

\* C14: each of the 80 tokens W<w><d>P<p> is accepted by timeslot! and yields
\* the TimeSlot of its own week digit, day letter and period code; the
\* hand-written index of its arm is the index computed from the components.
C14_MacroComponents ==
    (expanded # Unset /\ token \in CanonicalTokens) =>
        /\ expanded = Ret(SlotOfToken(token))
        /\ timeslot_arms[timeslot_first_arm(token)].index = IndexOfToken(token)
        /\ IsRet(expanded_index) => Val(expanded_index) = IndexOfToken(token)
        /\ token = <<"W", "2", "R", "P", "3">> =>
               expanded = Ret([week |-> "Two", day |-> "Thursday",
                               period |-> "Third"])

C14_Witness ==
    /\ token = <<"W", "2", "R", "P", "3">>
    /\ expanded = Ret([week |-> "Two", day |-> "Thursday", period |-> "Third"])
    /\ expanded_index = Ret(68)

\* C15: distinct accepted tokens of timeslot! yield distinct TimeSlots, and
\* each of the 80 TimeSlots (indices 0..=79) is produced by exactly one token.
C15_MacroBijection ==
    IsRet(expanded) =>
        /\ \A t \in AcceptedTokens : timeslot_macro(t) = expanded => t = token
        /\ \A s \in TimeSlots :
               Cardinality({t \in AcceptedTokens : timeslot_macro(t) = Ret(s)})
                   = 1
        /\ \A i \in 0..79 :
               Cardinality({t \in AcceptedTokens :
                               /\ IsRet(timeslot_macro(t))
                               /\ TimeSlot_index(Val(timeslot_macro(t))) = i})
                   = 1

C15_Witness ==
    /\ token = <<"W", "2", "F", "P", "5">>
    /\ expanded_index = Ret(79)

\* C17: the expansion fails for every lowercase token such as w1dmp2, for
\* every token with an unrecognised week digit, day letter or period code and
\* for every other malformed token; only the exact uppercase forms match.
C17_MalformedRejected ==
    expanded # Unset =>
        /\ token \notin CanonicalTokens => expanded = NoMatch
        /\ (\E i \in 1..Len(token) : token[i] \in LowerCaseChars) =>
               expanded = NoMatch
        /\ IsRet(expanded) => token \in CanonicalTokens

C17_Witness ==
    /\ token = <<"w", "1", "d", "m", "p", "2">>
    /\ expanded = NoMatch

\* C18: tokens follow the grammar "W" WeekDigit "D" DayLetter "P" PeriodCode:
\* W1DMP2 is accepted and denotes the second period of a week-one Monday, and
\* W2DRP5 the fifth period of a week-two Thursday.
C18_GrammarWithDayMark ==
    expanded # Unset =>
        /\ token = <<"W", "1", "D", "M", "P", "2">> =>
               expanded = Ret([week |-> "One", day |-> "Monday",
                               period |-> "Second"])
        /\ token = <<"W", "2", "D", "R", "P", "5">> =>
               expanded = Ret([week |-> "Two", day |-> "Thursday",
                               period |-> "Fifth"])

\* C19: a token with a leading iteration prefix "I" Digits is accepted and
\* yields the TimeSlot of the token without the prefix.
C19_IterationPrefixAccepted ==
    (/\ expanded # Unset
     /\ Len(token) = 7
     /\ token[1] = "I"
     /\ SubSeq(token, 3, 7) \in CanonicalTokens) =>
        expanded = Ret(SlotOfToken(SubSeq(token, 3, 7)))

\* C20: the first timeslot, written W1MP1, has index 0 and the last, written
\* W2FP5, has index 79; every other timeslot has an index strictly between.
C20_FirstAndLastToken ==
    IsRet(expanded_index) =>
        /\ token = <<"W", "1", "M", "P", "1">> => Val(expanded_index) = 0
        /\ token = <<"W", "2", "F", "P", "5">> => Val(expanded_index) = 79
        /\ token \notin {<<"W", "1", "M", "P", "1">>,
                         <<"W", "2", "F", "P", "5">>} =>
               (0 < Val(expanded_index) /\ Val(expanded_index) < 79)

\* (week, day, period) of a precedes that of b, lexicographically by ordinal.
LexBefore(a, b) ==
    LET aw == Ordinal(SpecWeekOrder, a.week)
        bw == Ordinal(SpecWeekOrder, b.week)
        ad == Ordinal(SpecDayOrder, a.day)
        bd == Ordinal(SpecDayOrder, b.day)
        ap == Ordinal(SpecPeriodOrder, a.period)
        bp == Ordinal(SpecPeriodOrder, b.period)
    IN  \/ aw < bw
        \/ aw = bw /\ ad < bd
        \/ aw = bw /\ ad = bd /\ ap < bp

\* C21: for any two TimeSlots a and b, a.index() < b.index() if and only if
\* (a.week, a.day, a.period) precedes (b.week, b.day, b.period)
\* lexicographically by ordinal; every slot of week Two has a greater index
\* than every slot of week One.  Here a is arg_slot and b is decoded.
C21_IndexOrder ==
    (IsRet(encoded) /\ IsRet(decoded) /\ IsRet(decoded_index)) =>
        LET a == arg_slot
            b == Val(decoded)
        IN  /\ Val(encoded) < Val(decoded_index) <=> LexBefore(a, b)
            /\ Val(decoded_index) < Val(encoded) <=> LexBefore(b, a)
            /\ (a.week = "One" /\ b.week = "Two") =>
                   Val(encoded) < Val(decoded_index)
            /\ (a.week = "Two" /\ b.week = "One") =>
                   Val(decoded_index) < Val(encoded)

C21_Witness ==
    /\ arg_slot = [week |-> "One", day |-> "Friday", period |-> "Fifth"]
    /\ decoded = Ret([week |-> "Two", day |-> "Monday", period |-> "Tutor"])
    /\ encoded = Ret(39)
    /\ decoded_index = Ret(40)

\* C23: TimeSlot::with_index never panics: for every index in 0..=79 both
\* ActiveDay::from_usize((index % PER_WEEK) / PER_DAY) and
\* Period::with_index(index % PER_DAY) return Some, so neither unwrap meets
\* the None of the catch-all arms.
C23_WithIndexNeverPanics ==
    /\ decoded # Panic
    /\ redecoded # Panic
    /\ IsSome(ranged) =>
           LET index == Ranged_get(Unwrap(ranged))
           IN  /\ index \in 0..79
               /\ IsSome(ActiveDay_from_usize((index % TimeSlot_PER_WEEK)
                                                  \div TimeSlot_PER_DAY))
               /\ IsSome(Period_with_index(index % TimeSlot_PER_DAY))

C23_Witness ==
    /\ arg_index = 79
    /\ IsSome(ranged)
    /\ decoded = Ret([week |-> "Two", day |-> "Friday", period |-> "Fifth"])

\* C22: equality and ordering of two ranged integers of one range are those
\* of their wrapped values: a == b iff a.get() == b.get(), and a < b iff
\* a.get() < b.get().
C22_ComparisonsFollowValue ==
    /\ IsRet(equal) =>
           (Val(equal) <=>
               Ranged_get(Unwrap(made)) = Ranged_get(Unwrap(other_made)))
    /\ IsRet(less) =>
           (Val(less) <=>
               Ranged_get(Unwrap(made)) < Ranged_get(Unwrap(other_made)))
    /\ (IsSome(made) /\ IsSome(other_made)) =>
           /\ Ranged_get(Unwrap(made)) = value
           /\ Ranged_get(Unwrap(other_made)) = other_value

C22_Witness ==
    /\ rtype = [prim |-> "i8", MIN |-> -128, MAX |-> 49]
    /\ value = -128
    /\ other_value = 47
    /\ equal = Ret(FALSE)
    /\ less = Ret(TRUE)

\* C24: ActiveDay::from_i64(n) and ActiveDay::from_u64(n) return Some exactly
\* when 0 <= n <= 4 (None for a negative n and for n >= 5), agree on every n
\* both accept, and the converted day's num_days_from_monday() is n for every
\* n in 0..=4.
C24_OrdinalPartialInverse ==
    /\ by_i64 # Unset => (IsSome(by_i64) <=> ordinal \in 0..4)
    /\ by_u64 # Unset => (IsSome(by_u64) <=> ordinal \in 0..4)
    /\ (by_i64 # Unset /\ ordinal \notin 0..4) => by_i64 = None
    /\ (by_u64 # Unset /\ ordinal \notin 0..4) => by_u64 = None
    /\ (by_i64 # Unset /\ by_u64 # Unset) => by_i64 = by_u64
    /\ IsSome(by_i64) =>
           /\ Ordinal(SpecDayOrder, Unwrap(by_i64)) = ordinal
           /\ num_days_from_monday(Unwrap(by_i64)) = ordinal
    /\ IsSome(by_u64) =>
           /\ Ordinal(SpecDayOrder, Unwrap(by_u64)) = ordinal
           /\ num_days_from_monday(Unwrap(by_u64)) = ordinal
    /\ IsRet(days_back) => Val(days_back) = ordinal

C24_Witness ==
    /\ ordinal = 4
    /\ by_i64 = Some("Friday")
    /\ by_u64 = Some("Friday")
    /\ days_back = Ret(4)

\* The orders of the five-slot schema.
SpecFiveWeekOrder == <<"WeekOne", "WeekTwo">>
SpecFiveSlotOrder == <<"First", "Second", "Third", "Fourth", "Fifth">>

\* The mixed-radix conversion with the slot count as its parameter: five days
\* a week, perDay slots a day.
RadixEncode(perDay, w, d, p) == w * (perDay * 5) + d * perDay + p
RadixDecode(perDay, i) ==
    <<(IF i \div (perDay * 5) = 0 THEN 0 ELSE 1),
      (i % (perDay * 5)) \div perDay,
      i % perDay>>

\* C25: under the five-slot schema (5 a day, 25 a week, 50 an iteration)
\* Period::with_index(i).index() == i for every i in 0..=49, and decode and
\* encode are the eight-slot algorithm with 8 replaced by 5.
C25_FiveSlotRoundTrip ==
    /\ five_decoded # Panic
    /\ (five_ranged # Unset /\ five_arg \in 0..49) => IsSome(five_ranged)
    /\ IsRet(five_index) => Val(five_index) = five_arg
    /\ IsRet(five_decoded) =>
           LET s == Val(five_decoded)
           IN  <<Ordinal(SpecFiveWeekOrder, s.week),
                 Ordinal(SpecWeekdayOrder, s.day),
                 Ordinal(SpecFiveSlotOrder, s.time_slot)>>
                   = RadixDecode(5, five_arg)
    /\ IsRet(five_index) =>
           LET s == Val(five_decoded)
           IN  Val(five_index) =
                   RadixEncode(5, Ordinal(SpecFiveWeekOrder, s.week),
                               Ordinal(SpecWeekdayOrder, s.day),
                               Ordinal(SpecFiveSlotOrder, s.time_slot))
    /\ IsRet(five_index) =>
           /\ \A s \in TimeSlots :
                  TimeSlot_index(s) =
                      RadixEncode(8, Ordinal(SpecWeekOrder, s.week),
                                  Ordinal(SpecDayOrder, s.day),
                                  Ordinal(SpecPeriodOrder, s.period))
           /\ \A i \in 0..79 :
                  LET s == Val(TimeSlot_with_index(<<i>>))
                  IN  <<Ordinal(SpecWeekOrder, s.week),
                        Ordinal(SpecDayOrder, s.day),
                        Ordinal(SpecPeriodOrder, s.period)>>
                          = RadixDecode(8, i)

C25_Witness ==
    /\ five_arg = 49
    /\ five_decoded = Ret([week |-> "WeekTwo", day |-> "Fri",
                           time_slot |-> "Fifth"])
    /\ five_index = Ret(49)

\* The minute of the day of a time, by the clock.
MinuteOfDay(t) == t.hour * 60 + t.minute

\* C26: under the five-slot schema, TimeSlot::from_time returns None for
\* every minute of the break gap [10:50, 11:10), of the lunch gap
\* [13:10, 13:55) and of the tutor time [08:25, 08:50).
C26_FiveSlotGaps ==
    five_slot # Unset =>
        LET m == MinuteOfDay(time)
        IN  /\ (10 * 60 + 50 <= m /\ m < 11 * 60 + 10) => five_slot = None
            /\ (13 * 60 + 10 <= m /\ m < 13 * 60 + 55) => five_slot = None
            /\ (8 * 60 + 25 <= m /\ m < 8 * 60 + 50) => five_slot = None

C26_Witness ==
    /\ time = [hour |-> 13, minute |-> 54, second |-> 59]
    /\ five_slot = None

\* C28: for every minute of the day, the five-slot classifier returns First,
\* Second, Third, Fourth or Fifth exactly when the eight-slot classifier
\* returns the slot of that name, and None exactly when the eight-slot
\* classifier returns None, Tutor, Break or Lunch.
C28_SchemasAgree ==
    (five_slot # Unset /\ period # Unset) =>
        /\ \A ts \in period_rs_TimeSlots :
               five_slot = Some(ts) <=> period = Some(ts)
        /\ five_slot = None <=>
               period \in {None, Some("Tutor"), Some("Break"), Some("Lunch")}

C28_Witness ==
    /\ time = [hour |-> 11, minute |-> 10, second |-> 0]
    /\ five_slot = Some("Third")
    /\ period = Some("Third")

\* The arms of from_time whose range holds minute m.
ArmsHolding(m) ==
    {k \in 1..Len(Period_from_time_arms) :
        Period_from_time_arms[k][1] <= m /\ m <= Period_from_time_arms[k][2]}

\* C27: the eight-slot interval table is sorted, non-overlapping and
\* contiguous: every minute m with 505 <= m < 895 classifies to exactly one
\* Period, and each slot's end minute (excluded) is the next slot's start
\* minute.
C27_TableContiguous ==
    period # Unset =>
        LET m == MinuteOfDay(time)
            arms == Period_from_time_arms
        IN  /\ \A k \in 1..Len(arms) : arms[k][1] <= arms[k][2]
            /\ \A k \in 1..(Len(arms) - 1) : arms[k][2] + 1 = arms[k + 1][1]
            /\ arms[1][1] = 505
            /\ arms[Len(arms)][2] + 1 = 895
            /\ Cardinality(ArmsHolding(m)) <= 1
            /\ (505 <= m /\ m < 895) =>
                   /\ Cardinality(ArmsHolding(m)) = 1
                   /\ IsSome(period)
                   /\ \A k \in ArmsHolding(m) : Unwrap(period) = arms[k][3]
            /\ ~(505 <= m /\ m < 895) => period = None

C27_Witness ==
    /\ time = [hour |-> 11, minute |-> 9, second |-> 59]
    /\ period = Some("Break")

\* Instant (w1, dt1) is not later than instant (w2, dt2) in (week,
\* Monday-first weekday, minute of the day) order.
NotLater(w1, dt1, w2, dt2) ==
    LET a == <<Ordinal(SpecWeekOrder, w1),
               Ordinal(SpecWeekdayOrder, dt1.weekday), MinuteOfDay(dt1.time)>>
        b == <<Ordinal(SpecWeekOrder, w2),
               Ordinal(SpecWeekdayOrder, dt2.weekday), MinuteOfDay(dt2.time)>>
    IN  \/ a[1] < b[1]
        \/ a[1] = b[1] /\ a[2] < b[2]
        \/ a[1] = b[1] /\ a[2] = b[2] /\ a[3] <= b[3]

EarliestInstant ==
    [weekday |-> "Mon", time |-> [hour |-> 8, minute |-> 25, second |-> 0]]
LatestInstant ==
    [weekday |-> "Fri", time |-> [hour |-> 14, minute |-> 54, second |-> 0]]

\* C29: resolution followed by indexing preserves chronological order within
\* an iteration: if the first instant is not later than the second and both
\* resolve via from_datetime, the first index is <= the second; the earliest
\* resolvable instant (week One, Monday 08:25) has index 0 and the latest
\* (week Two, Friday 14:54) has index 79.
C29_ResolutionKeepsOrder ==
    /\ (IsRet(resolved_index) /\ IsRet(later_index)
           /\ NotLater(arg_week, datetime, later_week, later_datetime)) =>
           Val(resolved_index) <= Val(later_index)
    /\ IsSome(resolved) =>
           /\ NotLater("One", EarliestInstant, arg_week, datetime)
           /\ NotLater(arg_week, datetime, "Two", LatestInstant)
    /\ (arg_week = "One" /\ datetime = EarliestInstant) =>
           /\ resolved # Unset => IsSome(resolved)
           /\ resolved_index \in {Unset, Ret(0)}
    /\ (arg_week = "Two" /\ datetime = LatestInstant) =>
           /\ resolved # Unset => IsSome(resolved)
           /\ resolved_index \in {Unset, Ret(79)}

C29_Witness ==
    /\ arg_week = "One"
    /\ datetime = EarliestInstant
    /\ later_week = "Two"
    /\ later_datetime = LatestInstant
    /\ resolved_index = Ret(0)
    /\ later_index = Ret(79)

\* C30: Period::from_time depends only on the hour and the minute of its
\* input: two times with the same hour and minute and different seconds
\* classify alike (08:50:22 is First, 14:54:45 is Fifth), and
\* hour * 60 + minute lies in 0..=1439, so the computation cannot overflow.
C30_SecondsIgnored ==
    /\ (period # Unset /\ other_period # Unset) => period = other_period
    /\ (period # Unset
           /\ time = [hour |-> 8, minute |-> 50, second |-> 22]) =>
           period = Some("First")
    /\ (period # Unset
           /\ time = [hour |-> 14, minute |-> 54, second |-> 45]) =>
           period = Some("Fifth")
    /\ time.hour * 60 \in 0..1380
    /\ minutes_into_day(time) \in 0..1439

C30_Witness ==
    /\ time = [hour |-> 14, minute |-> 54, second |-> 45]
    /\ other_second = 0
    /\ period = Some("Fifth")
    /\ other_period = Some("Fifth")

====
